---- MODULE Spec2Model ----
(***************************************************************************)
(* Model of group_images_service.py: GroupImagesService merges two images  *)
(* (given as encoded byte buffers) vertically or horizontally.             *)
(*                                                                         *)
(* A byte buffer is modelled by what the codec makes of it: whether        *)
(* Image.open identifies it, and the width, height and content of the      *)
(* raster it holds.  Image objects live in a heap (a sequence indexed by   *)
(* object identity) so that rebinding a local name to the image returned   *)
(* by resize() is distinguishable from writing into an existing image.     *)
(* The raster of an image is kept as its layers: the uniformly coloured    *)
(* rectangles written to it, in order, the last one covering a pixel       *)
(* giving its colour.  Colours are tokens: 1 and 2 for the contents of the *)
(* first and second input, 0 for the black of a freshly allocated canvas.  *)
(***************************************************************************)
EXTENDS Integers, Sequences, FiniteSets, TLC

VARIABLES
    first_image_in_bytes,   \* GroupImagesInputDTO.first_image_in_bytes
    second_image_in_bytes,  \* GroupImagesInputDTO.second_image_in_bytes
    orientation,            \* GroupImagesInputDTO.orientation
    pc,                     \* position inside GroupImagesService.__call__
    heap,                   \* the image objects allocated so far
    image1, image2,         \* __call__'s locals (references into heap, 0 = unbound)
    m_image1, m_image2,     \* the merge method's parameters image1, image2
    max_width, max_height,  \* the merge methods' locals
    result,                 \* the merge method's local result
    pastes,                 \* the paste calls made on result, in order
    merged_image,           \* __call__'s local merged_image
    output,                 \* the bytes __call__ returned, or NoBytes
    err                     \* the exception that left __call__, or "none"

vars == <<first_image_in_bytes, second_image_in_bytes, orientation, pc, heap,
          image1, image2, m_image1, m_image2, max_width, max_height, result,
          pastes, merged_image, output, err>>

(***************************************************************************)
(* Bounds of the checked inputs.                                           *)
(***************************************************************************)
MaxDim == 4

Dims == 0..MaxDim

NoBytes == [format |-> "none"]

Undecodable(c) == [decodes |-> FALSE, width |-> 0, height |-> 0, content |-> c]

Encoded(w, h, c) == [decodes |-> TRUE, width |-> w, height |-> h, content |-> c]

\* The buffers a call is checked with: every size within the bound, a buffer
\* that is no image, and the 100x200 / 50x50 pair of the documented examples.
Buffers(c) ==
    {Encoded(w, h, c) : w \in Dims, h \in Dims} \cup {Undecodable(c)}

ExamplePairs == {<<Encoded(100, 200, 1), Encoded(50, 50, 2)>>}

InputPairs == (Buffers(1) \X Buffers(2)) \cup ExamplePairs

(***************************************************************************)
(* Values and library operations.                                          *)
(***************************************************************************)
\* MergeOrientation's two members; "NONE" stands for any other value a caller
\* may put in the DTO (the constructor does not check it).
MergeOrientation == {"HORIZONTAL", "VERTICAL"}

Orientations == MergeOrientation \cup {"NONE"}

Rect(w, h) == (0..(w - 1)) \X (0..(h - 1))

Max(a, b) == IF a >= b THEN a ELSE b

\* Image.open(io.BytesIO(b)): raises when the bytes are no image.
OpenFails(b) == ~b.decodes

Layer(x0, y0, w, h, c) == [x |-> x0, y |-> y0, w |-> w, h |-> h, colour |-> c]

InLayer(p, l) ==
    /\ l.x <= p[1] /\ p[1] < l.x + l.w
    /\ l.y <= p[2] /\ p[2] < l.y + l.h

\* The colour of pixel p of an image: that of the last layer covering it.
\* Every image is created with a layer covering it whole.
PixelAt(im, p) ==
    LET covering == {i \in 1..Len(im.layers) : InLayer(p, im.layers[i])}
        last == CHOOSE i \in covering : \A j \in covering : j <= i
    IN  im.layers[last].colour

\* The decoded raster of a buffer, uniformly of the buffer's content.
ImageOpen(b) ==
    [width |-> b.width, height |-> b.height,
     layers |-> <<Layer(0, 0, b.width, b.height, b.content)>>]

\* Variant: the final else merges horizontally instead of raising.
DispatchTarget_default(o) == IF o = "VERTICAL" THEN "vertical" ELSE "horizontal"

\* The branch __call__ takes for an orientation.
DispatchTarget(o) ==
    IF o = "VERTICAL" THEN "vertical"
    ELSE IF o = "HORIZONTAL" THEN "horizontal"
    ELSE "raise"

\* Variant: the smaller width is the target.
MaxWidth_min(a, b) == IF a.width <= b.width THEN a.width ELSE b.width

MaxWidth(a, b) == Max(a.width, b.width)

\* Variant: the smaller height is the target.
MaxHeight_min(a, b) == IF a.height <= b.height THEN a.height ELSE b.height

MaxHeight(a, b) == Max(a.height, b.height)

\* Variant: round(n / d) in place of int(n / d).
IntOfTrueDiv_round(n, d) == (2 * n + d) \div (2 * d)

\* int(n / d) for integers n >= 0, d > 0: the true quotient as a float,
\* truncated.  For n below 2^53 the float quotient is below the next integer
\* whenever the exact one is, so the value is the floor of n / d.
IntOfTrueDiv(n, d) == n \div d

\* Variant: the width is set to the target and the height left as it is.
VerticalSize_keepHeight(im, mw) == <<mw, im.height>>

\* The size tuple passed to resize() by _merge_images_vertically.
VerticalSize(im, mw) == <<mw, IntOfTrueDiv(im.height * mw, im.width)>>

\* The size tuple passed to resize() by _merge_images_horizontally.
HorizontalSize(im, mh) == <<IntOfTrueDiv(im.width * mh, im.height), mh>>

\* What Image.resize does with a size: a size with a zero side is refused by
\* some library versions and accepted by others (and by all when it is the
\* image's own size), so both outcomes are possible there.
ResizeOutcomes(size) ==
    IF size[1] > 0 /\ size[2] > 0 THEN {"image"} ELSE {"image", "ValueError"}

\* The image Image.resize returns: the given size, resampled from the
\* source.  resize is applied to decoded inputs only, which are of one
\* colour, and so is their resampling.
Resize(im, size) ==
    [width |-> size[1], height |-> size[2],
     layers |-> <<Layer(0, 0, size[1], size[2], im.layers[1].colour)>>]

\* Variant: the image is resized in place (as Image.thumbnail does).
ResizeTarget_inPlace(h, src) == src

\* Where the image returned by resize() is stored: a new object.
ResizeTarget(h, src) == Len(h) + 1

Store(h, id, im) == IF id = Len(h) + 1 THEN Append(h, im) ELSE [h EXCEPT ![id] = im]

\* Image.new("RGB", size): a black canvas.
NewImage(size) ==
    [width |-> size[1], height |-> size[2],
     layers |-> <<Layer(0, 0, size[1], size[2], 0)>>]

\* Variant: the heights are not added (the larger one is taken).
CombinedHeight_max(a, b) == Max(a.height, b.height)

CombinedHeight(a, b) == a.height + b.height

CombinedWidth(a, b) == a.width + b.width

VerticalCanvasSize(mw, a, b) == <<mw, CombinedHeight(a, b)>>

\* Variant: the canvas size as (height, width).
HorizontalCanvasSize_swapped(mh, a, b) == <<mh, CombinedWidth(a, b)>>

HorizontalCanvasSize(mh, a, b) == <<CombinedWidth(a, b), mh>>

FirstPos == <<0, 0>>

\* Variant: the second image pasted beside the first, as in the horizontal merge.
VerticalSecondPos_beside(a) == <<a.width, 0>>

VerticalSecondPos(a) == <<0, a.height>>

HorizontalSecondPos(a) == <<a.width, 0>>

Min(a, b) == IF a <= b THEN a ELSE b

\* canvas.paste(im, pos): im's pixels replace the canvas's inside the box at
\* pos, clipped to the canvas.  The pasted images are of one colour.
Paste(canvas, im, pos) ==
    [canvas EXCEPT !.layers =
        Append(@, Layer(pos[1], pos[2],
                        Max(0, Min(im.width, canvas.width - pos[1])),
                        Max(0, Min(im.height, canvas.height - pos[2])),
                        im.layers[1].colour))]

PasteRecord(id, im, pos) ==
    [image |-> id, x |-> pos[1], y |-> pos[2], w |-> im.width, h |-> im.height]

\* image.save(buffer, format="JPEG", quality=85): an encoder may refuse a
\* raster with a zero side.
SaveOutcomes(im) ==
    IF im.width > 0 /\ im.height > 0 THEN {"bytes"} ELSE {"bytes", "EncodeError"}

ImageToBytes(im) ==
    [format |-> "JPEG", quality |-> 85, width |-> im.width, height |-> im.height]

(***************************************************************************)
(* The state machine of one call of GroupImagesService.__call__.           *)
(***************************************************************************)
inputs == <<first_image_in_bytes, second_image_in_bytes, orientation>>

callLocals == <<image1, image2, merged_image>>

mergeLocals == <<m_image1, m_image2, max_width, max_height, result, pastes>>

Init ==
    /\ \E pair \in InputPairs :
          /\ first_image_in_bytes = pair[1]
          /\ second_image_in_bytes = pair[2]
    /\ orientation \in Orientations
    /\ pc = "open1"
    /\ heap = <<>>
    /\ image1 = 0 /\ image2 = 0
    /\ m_image1 = 0 /\ m_image2 = 0
    /\ max_width = 0 /\ max_height = 0
    /\ result = 0
    /\ pastes = <<>>
    /\ merged_image = 0
    /\ output = NoBytes
    /\ err = "none"

\* An exception leaves __call__.
Raise(e) == err' = e /\ pc' = "done"

\* line 34
Open1 ==
    /\ pc = "open1"
    /\ IF OpenFails(first_image_in_bytes)
       THEN Raise("UnidentifiedImageError") /\ UNCHANGED <<heap, image1>>
       ELSE /\ heap' = Append(heap, ImageOpen(first_image_in_bytes))
            /\ image1' = Len(heap) + 1
            /\ pc' = "open2"
            /\ err' = err
    /\ UNCHANGED <<inputs, image2, merged_image, mergeLocals, output>>

\* line 35
Open2 ==
    /\ pc = "open2"
    /\ IF OpenFails(second_image_in_bytes)
       THEN Raise("UnidentifiedImageError") /\ UNCHANGED <<heap, image2>>
       ELSE /\ heap' = Append(heap, ImageOpen(second_image_in_bytes))
            /\ image2' = Len(heap) + 1
            /\ pc' = "dispatch"
            /\ err' = err
    /\ UNCHANGED <<inputs, image1, merged_image, mergeLocals, output>>

\* lines 38-39 and 52: the call of _merge_images_vertically and its first line
CallVertical ==
    /\ pc = "dispatch"
    /\ DispatchTarget(orientation) = "vertical"
    /\ m_image1' = image1 /\ m_image2' = image2
    /\ max_width' = MaxWidth(heap[image1], heap[image2])
    /\ pc' = "v_resize1"
    /\ UNCHANGED <<inputs, heap, callLocals, max_height, result, pastes, output, err>>

\* lines 40-41 and 72
CallHorizontal ==
    /\ pc = "dispatch"
    /\ DispatchTarget(orientation) = "horizontal"
    /\ m_image1' = image1 /\ m_image2' = image2
    /\ max_height' = MaxHeight(heap[image1], heap[image2])
    /\ pc' = "h_resize1"
    /\ UNCHANGED <<inputs, heap, callLocals, max_width, result, pastes, output, err>>

\* lines 42-43
RaiseUnsupported ==
    /\ pc = "dispatch"
    /\ DispatchTarget(orientation) = "raise"
    /\ Raise("ValueError: Unsupported merge orientation")
    /\ UNCHANGED <<inputs, heap, callLocals, mergeLocals, output>>

\* lines 53-55
VResize1 ==
    /\ pc = "v_resize1"
    /\ IF heap[m_image1].width = 0
       THEN Raise("ZeroDivisionError") /\ UNCHANGED <<heap, m_image1>>
       ELSE LET size == VerticalSize(heap[m_image1], max_width) IN
            \E o \in ResizeOutcomes(size) :
               IF o = "image"
               THEN /\ heap' = Store(heap, ResizeTarget(heap, m_image1),
                                     Resize(heap[m_image1], size))
                    /\ m_image1' = ResizeTarget(heap, m_image1)
                    /\ pc' = "v_resize2"
                    /\ err' = err
               ELSE Raise("ValueError: height and width must be > 0")
                    /\ UNCHANGED <<heap, m_image1>>
    /\ UNCHANGED <<inputs, callLocals, m_image2, max_width, max_height, result,
                   pastes, output>>

\* lines 56-58
VResize2 ==
    /\ pc = "v_resize2"
    /\ IF heap[m_image2].width = 0
       THEN Raise("ZeroDivisionError") /\ UNCHANGED <<heap, m_image2>>
       ELSE LET size == VerticalSize(heap[m_image2], max_width) IN
            \E o \in ResizeOutcomes(size) :
               IF o = "image"
               THEN /\ heap' = Store(heap, ResizeTarget(heap, m_image2),
                                     Resize(heap[m_image2], size))
                    /\ m_image2' = ResizeTarget(heap, m_image2)
                    /\ pc' = "v_new"
                    /\ err' = err
               ELSE Raise("ValueError: height and width must be > 0")
                    /\ UNCHANGED <<heap, m_image2>>
    /\ UNCHANGED <<inputs, callLocals, m_image1, max_width, max_height, result,
                   pastes, output>>

\* lines 60-61
VNew ==
    /\ pc = "v_new"
    /\ heap' = Append(heap, NewImage(VerticalCanvasSize(max_width, heap[m_image1], heap[m_image2])))
    /\ result' = Len(heap) + 1
    /\ pc' = "v_paste1"
    /\ UNCHANGED <<inputs, callLocals, m_image1, m_image2, max_width, max_height,
                   pastes, output, err>>

\* line 63
VPaste1 ==
    /\ pc = "v_paste1"
    /\ heap' = [heap EXCEPT ![result] = Paste(heap[result], heap[m_image1], FirstPos)]
    /\ pastes' = Append(pastes, PasteRecord(m_image1, heap[m_image1], FirstPos))
    /\ pc' = "v_paste2"
    /\ UNCHANGED callLocals
    /\ UNCHANGED <<inputs, m_image1, m_image2, max_width, max_height, result,
                   output, err>>

\* lines 64-66, and the assignment of line 39
VPaste2 ==
    /\ pc = "v_paste2"
    /\ heap' = [heap EXCEPT ![result] = Paste(heap[result], heap[m_image2], VerticalSecondPos(heap[m_image1]))]
    /\ pastes' = Append(pastes, PasteRecord(m_image2, heap[m_image2], VerticalSecondPos(heap[m_image1])))
    /\ pc' = "to_bytes"
    /\ merged_image' = result
    /\ UNCHANGED <<image1, image2>>
    /\ UNCHANGED <<inputs, m_image1, m_image2, max_width, max_height, result,
                   output, err>>

\* lines 73-75
HResize1 ==
    /\ pc = "h_resize1"
    /\ IF heap[m_image1].height = 0
       THEN Raise("ZeroDivisionError") /\ UNCHANGED <<heap, m_image1>>
       ELSE LET size == HorizontalSize(heap[m_image1], max_height) IN
            \E o \in ResizeOutcomes(size) :
               IF o = "image"
               THEN /\ heap' = Store(heap, ResizeTarget(heap, m_image1),
                                     Resize(heap[m_image1], size))
                    /\ m_image1' = ResizeTarget(heap, m_image1)
                    /\ pc' = "h_resize2"
                    /\ err' = err
               ELSE Raise("ValueError: height and width must be > 0")
                    /\ UNCHANGED <<heap, m_image1>>
    /\ UNCHANGED <<inputs, callLocals, m_image2, max_width, max_height, result,
                   pastes, output>>

\* lines 76-78
HResize2 ==
    /\ pc = "h_resize2"
    /\ IF heap[m_image2].height = 0
       THEN Raise("ZeroDivisionError") /\ UNCHANGED <<heap, m_image2>>
       ELSE LET size == HorizontalSize(heap[m_image2], max_height) IN
            \E o \in ResizeOutcomes(size) :
               IF o = "image"
               THEN /\ heap' = Store(heap, ResizeTarget(heap, m_image2),
                                     Resize(heap[m_image2], size))
                    /\ m_image2' = ResizeTarget(heap, m_image2)
                    /\ pc' = "h_new"
                    /\ err' = err
               ELSE Raise("ValueError: height and width must be > 0")
                    /\ UNCHANGED <<heap, m_image2>>
    /\ UNCHANGED <<inputs, callLocals, m_image1, max_width, max_height, result,
                   pastes, output>>

\* lines 80-81
HNew ==
    /\ pc = "h_new"
    /\ heap' = Append(heap, NewImage(HorizontalCanvasSize(max_height, heap[m_image1], heap[m_image2])))
    /\ result' = Len(heap) + 1
    /\ pc' = "h_paste1"
    /\ UNCHANGED <<inputs, callLocals, m_image1, m_image2, max_width, max_height,
                   pastes, output, err>>

\* line 83
HPaste1 ==
    /\ pc = "h_paste1"
    /\ heap' = [heap EXCEPT ![result] = Paste(heap[result], heap[m_image1], FirstPos)]
    /\ pastes' = Append(pastes, PasteRecord(m_image1, heap[m_image1], FirstPos))
    /\ pc' = "h_paste2"
    /\ UNCHANGED callLocals
    /\ UNCHANGED <<inputs, m_image1, m_image2, max_width, max_height, result,
                   output, err>>

\* lines 84-86, and the assignment of line 41
HPaste2 ==
    /\ pc = "h_paste2"
    /\ heap' = [heap EXCEPT ![result] = Paste(heap[result], heap[m_image2], HorizontalSecondPos(heap[m_image1]))]
    /\ pastes' = Append(pastes, PasteRecord(m_image2, heap[m_image2], HorizontalSecondPos(heap[m_image1])))
    /\ pc' = "to_bytes"
    /\ merged_image' = result
    /\ UNCHANGED <<image1, image2>>
    /\ UNCHANGED <<inputs, m_image1, m_image2, max_width, max_height, result,
                   output, err>>

\* line 46 and _image_to_bytes, lines 88-95
ToBytes ==
    /\ pc = "to_bytes"
    /\ \E o \in SaveOutcomes(heap[merged_image]) :
          IF o = "bytes"
          THEN /\ output' = ImageToBytes(heap[merged_image])
               /\ pc' = "done"
               /\ err' = err
          ELSE Raise("EncodeError") /\ output' = output
    /\ UNCHANGED <<inputs, heap, callLocals, mergeLocals>>

Next ==
    \/ Open1
    \/ Open2
    \/ CallVertical
    \/ CallHorizontal
    \/ RaiseUnsupported
    \/ VResize1
    \/ VResize2
    \/ VNew
    \/ VPaste1
    \/ VPaste2
    \/ HResize1
    \/ HResize2
    \/ HNew
    \/ HPaste1
    \/ HPaste2
    \/ ToBytes

Spec == Init /\ [][Next]_vars

(***************************************************************************)
(* Vocabulary of the properties.                                           *)
(***************************************************************************)
UnsupportedError == "ValueError: Unsupported merge orientation"

BothDecode == first_image_in_bytes.decodes /\ second_image_in_bytes.decodes

PositiveInputs ==
    /\ BothDecode
    /\ first_image_in_bytes.width > 0 /\ first_image_in_bytes.height > 0
    /\ second_image_in_bytes.width > 0 /\ second_image_in_bytes.height > 0

\* The merge method has returned: image1, image2 are the decoded inputs,
\* m_image1, m_image2 the resized images, merged_image the canvas.
Merged == merged_image # 0

Returned == pc = "done" /\ err = "none"

w1 == first_image_in_bytes.width

h1 == first_image_in_bytes.height

w2 == second_image_in_bytes.width

h2 == second_image_in_bytes.height

Resized1 == heap[m_image1]

Resized2 == heap[m_image2]

Canvas == heap[merged_image]

IsExample ==
    /\ first_image_in_bytes = Encoded(100, 200, 1)
    /\ second_image_in_bytes = Encoded(50, 50, 2)

Abs(x) == IF x >= 0 THEN x ELSE -x

\* Round-to-nearest of n / d (n >= 0, d > 0), ties up.
RoundHalfUp(n, d) == (2 * n + d) \div (2 * d)

\* Round-to-nearest of n / d (n >= 0, d > 0), ties to the even neighbour.
RoundHalfEven(n, d) ==
    LET q == n \div d
        r == n % d
    IN  IF 2 * r < d THEN q
        ELSE IF 2 * r > d THEN q + 1
        ELSE IF q % 2 = 0 THEN q ELSE q + 1

\* k is the floor of n / d, stated without division.
IsFloor(k, n, d) == k * d <= n /\ n < (k + 1) * d

(***************************************************************************)
(* C1: a VERTICAL merge of two images with positive sizes returns an image *)
(* whose width is max(width1, width2) and whose height is the sum of the   *)
(* heights of the two images resized to that width; 100x200 with 50x50     *)
(* gives 100x300.                                                          *)
(***************************************************************************)
C1_VerticalResult ==
    (orientation = "VERTICAL" /\ PositiveInputs /\ pc = "done") =>
        /\ err = "none"
        /\ Resized1.width = Max(w1, w2)
        /\ Resized2.width = Max(w1, w2)
        /\ Canvas.width = Max(w1, w2)
        /\ Canvas.height = Resized1.height + Resized2.height
        /\ output.width = Canvas.width /\ output.height = Canvas.height
        /\ IsExample => (Canvas.width = 100 /\ Canvas.height = 300)

C1_Witness ==
    /\ orientation = "VERTICAL" /\ IsExample /\ Returned
    /\ output.width = 100 /\ output.height = 300

(***************************************************************************)
(* C2: a HORIZONTAL merge of two images with positive sizes returns an     *)
(* image whose height is max(height1, height2) and whose width is the sum  *)
(* of the widths of the two images resized to that height; 100x200 with    *)
(* 50x50 gives 300x200.                                                    *)
(***************************************************************************)
C2_HorizontalResult ==
    (orientation = "HORIZONTAL" /\ PositiveInputs /\ pc = "done") =>
        /\ err = "none"
        /\ Resized1.height = Max(h1, h2)
        /\ Resized2.height = Max(h1, h2)
        /\ Canvas.height = Max(h1, h2)
        /\ Canvas.width = Resized1.width + Resized2.width
        /\ output.width = Canvas.width /\ output.height = Canvas.height
        /\ IsExample => (Canvas.width = 300 /\ Canvas.height = 200)

C2_Witness ==
    /\ orientation = "HORIZONTAL" /\ IsExample /\ Returned
    /\ output.width = 300 /\ output.height = 200

(***************************************************************************)
(* C3 as stated: the scaled side of each resized image is the exact        *)
(* quotient rounded to nearest (ties to even, or ties up).  Every value    *)
(* either tie rule allows is accepted here, so a violation refutes the     *)
(* claim under both rules.                                                 *)
(***************************************************************************)
C3_RoundsToNearest ==
    (Merged /\ PositiveInputs) =>
        IF orientation = "VERTICAL"
        THEN /\ Resized1.height \in {RoundHalfUp(h1 * Max(w1, w2), w1),
                                     RoundHalfEven(h1 * Max(w1, w2), w1)}
             /\ Resized2.height \in {RoundHalfUp(h2 * Max(w1, w2), w2),
                                     RoundHalfEven(h2 * Max(w1, w2), w2)}
        ELSE /\ Resized1.width \in {RoundHalfUp(w1 * Max(h1, h2), h1),
                                    RoundHalfEven(w1 * Max(h1, h2), h1)}
             /\ Resized2.width \in {RoundHalfUp(w2 * Max(h1, h2), h2),
                                    RoundHalfEven(w2 * Max(h1, h2), h2)}

(***************************************************************************)
(* C3 amended: the scaled side of each resized image is the exact quotient *)
(* truncated (its floor): newHeight = floor(height * targetWidth / width)  *)
(* for VERTICAL, newWidth = floor(width * targetHeight / height) for       *)
(* HORIZONTAL, for all positive input sizes.                               *)
(***************************************************************************)
C3_Truncates ==
    (Merged /\ PositiveInputs) =>
        IF orientation = "VERTICAL"
        THEN /\ IsFloor(Resized1.height, h1 * Max(w1, w2), w1)
             /\ IsFloor(Resized2.height, h2 * Max(w1, w2), w2)
        ELSE /\ IsFloor(Resized1.width, w1 * Max(h1, h2), h1)
             /\ IsFloor(Resized2.width, w2 * Max(h1, h2), h2)

\* A returned merge whose first image's quotient has a fraction of at least
\* one half: truncation and rounding differ.
C3_Witness ==
    /\ Returned /\ PositiveInputs /\ orientation = "VERTICAL"
    /\ 2 * ((h1 * Max(w1, w2)) % w1) >= w1
    /\ Resized1.height + 1 = RoundHalfUp(h1 * Max(w1, w2), w1)

(***************************************************************************)
(* C4 as stated: every call whose orientation is neither HORIZONTAL nor    *)
(* VERTICAL fails with the unsupported-orientation error and produces no   *)
(* output, whatever the two inputs are.                                    *)
(***************************************************************************)
C4_AlwaysUnsupportedError ==
    (orientation \notin MergeOrientation /\ pc = "done") =>
        err = UnsupportedError /\ output = NoBytes

(***************************************************************************)
(* C4 amended: a call whose orientation is neither HORIZONTAL nor VERTICAL *)
(* never merges, encodes or returns bytes; it fails with the               *)
(* unsupported-orientation error when both input buffers decode, and with  *)
(* the codec's decode error, raised before the orientation is looked at,   *)
(* when one of them does not.                                              *)
(***************************************************************************)
C4_UnsupportedOrDecodeError ==
    orientation \notin MergeOrientation =>
        /\ output = NoBytes
        /\ m_image1 = 0 /\ m_image2 = 0 /\ result = 0 /\ merged_image = 0
        /\ pastes = <<>>
        /\ pc \in {"open1", "open2", "dispatch", "done"}
        /\ pc = "done" =>
              err = IF BothDecode THEN UnsupportedError ELSE "UnidentifiedImageError"

\* The unsupported-orientation error raised for two decoded images, one of
\* them with a zero side.
C4_Witness ==
    /\ orientation = "NONE" /\ pc = "done" /\ BothDecode
    /\ err = UnsupportedError /\ output = NoBytes
    /\ w1 = 0 /\ h2 > 0

(***************************************************************************)
(* C5: a merge in which an input image has a width or height of 0 is       *)
(* rejected with InvalidImageError; it never ends in a division by zero    *)
(* and never returns an image.                                             *)
(***************************************************************************)
C5_ZeroDimensionRejected ==
    (/\ pc = "done" /\ BothDecode /\ orientation \in MergeOrientation
     /\ (w1 = 0 \/ h1 = 0 \/ w2 = 0 \/ h2 = 0)) =>
        err = "InvalidImageError" /\ output = NoBytes

(***************************************************************************)
(* C6: in both orientations image1 is pasted at (0,0) and image2 at        *)
(* (0, resizedHeight1) for VERTICAL or (resizedWidth1, 0) for HORIZONTAL;  *)
(* the two paste rectangles are disjoint and every pixel of the result     *)
(* canvas belongs to exactly one of them, and shows that image.            *)
(***************************************************************************)
InPaste(p, r) ==
    /\ r.x <= p[1] /\ p[1] < r.x + r.w
    /\ r.y <= p[2] /\ p[2] < r.y + r.h

C6_NoOverlapNoGap ==
    Merged =>
        /\ Len(pastes) = 2
        /\ pastes[1] = [image |-> m_image1, x |-> 0, y |-> 0,
                        w |-> Resized1.width, h |-> Resized1.height]
        /\ pastes[2] = [image |-> m_image2,
                        x |-> IF orientation = "VERTICAL" THEN 0 ELSE Resized1.width,
                        y |-> IF orientation = "VERTICAL" THEN Resized1.height ELSE 0,
                        w |-> Resized2.width, h |-> Resized2.height]
        /\ \A i \in 1..2 :
              /\ pastes[i].x + pastes[i].w <= Canvas.width
              /\ pastes[i].y + pastes[i].h <= Canvas.height
        /\ \A p \in Rect(Canvas.width, Canvas.height) :
              /\ InPaste(p, pastes[1]) # InPaste(p, pastes[2])
              /\ PixelAt(Canvas, p) = IF InPaste(p, pastes[1]) THEN 1 ELSE 2
        /\ Resized1.width * Resized1.height + Resized2.width * Resized2.height
              = Canvas.width * Canvas.height

C6_Witness ==
    /\ Returned /\ PositiveInputs /\ orientation = "VERTICAL"
    /\ w1 < w2 /\ h1 > 1
    /\ Len(pastes) = 2 /\ pastes[2].y = Resized1.height /\ pastes[2].y > h1
    /\ PixelAt(Canvas, <<0, 0>>) = 1
    /\ PixelAt(Canvas, <<Canvas.width - 1, Canvas.height - 1>>) = 2

(***************************************************************************)
(* C7: for positive input sizes each resized image keeps its aspect ratio  *)
(* within one pixel: |resizedHeight - height * targetWidth / width| <= 1   *)
(* (VERTICAL) and |resizedWidth - width * targetHeight / height| <= 1      *)
(* (HORIZONTAL), the quotient being exact.  Both sides are multiplied by   *)
(* the divisor.                                                            *)
(***************************************************************************)
C7_AspectWithinOnePixel ==
    (Merged /\ PositiveInputs) =>
        IF orientation = "VERTICAL"
        THEN /\ Abs(Resized1.height * w1 - h1 * Max(w1, w2)) <= w1
             /\ Abs(Resized2.height * w2 - h2 * Max(w1, w2)) <= w2
        ELSE /\ Abs(Resized1.width * h1 - w1 * Max(h1, h2)) <= h1
             /\ Abs(Resized2.width * h2 - w2 * Max(h1, h2)) <= h2

\* A returned merge that enlarged the second image by an inexact factor.
C7_Witness ==
    /\ Returned /\ PositiveInputs /\ orientation = "HORIZONTAL"
    /\ h2 < h1 /\ (w2 * h1) % h2 # 0
    /\ Resized2.width > w2

(***************************************************************************)
(* C8: a merge never mutates its inputs: in every step of a call, failing  *)
(* or not, the two input buffers, the orientation, and the size and pixels *)
(* of the two decoded input images stay as they are; resizing and pasting  *)
(* write to newly allocated images only.                                   *)
(***************************************************************************)
C8_InputsNeverMutated ==
    [][/\ first_image_in_bytes' = first_image_in_bytes
       /\ second_image_in_bytes' = second_image_in_bytes
       /\ orientation' = orientation
       /\ image1 # 0 => (image1' = image1 /\ heap'[image1] = heap[image1])
       /\ image2 # 0 => (image2' = image2 /\ heap'[image2] = heap[image2])]_vars

\* A returned merge that resized both images to another size, the decoded
\* inputs still being what the buffers decode to.
C8_Witness ==
    /\ Returned /\ PositiveInputs
    /\ m_image1 # image1 /\ m_image2 # image2
    /\ Resized1.height > h1 /\ Resized2.height = h2
    /\ heap[image1] = ImageOpen(first_image_in_bytes)
    /\ heap[image2] = ImageOpen(second_image_in_bytes)

(***************************************************************************)
(* C9: the image that already has the target dimension keeps its size: in  *)
(* a VERTICAL merge an image whose width is max(width1, width2), and in a  *)
(* HORIZONTAL merge an image whose height is max(height1, height2), is     *)
(* resized to its own (width, height); when both images share that         *)
(* dimension the result has the two original sizes concatenated.           *)
(***************************************************************************)
C9_TargetImageUnchanged ==
    (Merged /\ PositiveInputs) =>
        IF orientation = "VERTICAL"
        THEN /\ w1 >= w2 => (Resized1.width = w1 /\ Resized1.height = h1)
             /\ w2 >= w1 => (Resized2.width = w2 /\ Resized2.height = h2)
             /\ w1 = w2 => (Canvas.width = w1 /\ Canvas.height = h1 + h2)
        ELSE /\ h1 >= h2 => (Resized1.width = w1 /\ Resized1.height = h1)
             /\ h2 >= h1 => (Resized2.width = w2 /\ Resized2.height = h2)
             /\ h1 = h2 => (Canvas.height = h1 /\ Canvas.width = w1 + w2)

C9_Witness ==
    /\ Returned /\ PositiveInputs /\ orientation = "HORIZONTAL"
    /\ h1 > h2 /\ w1 > 1
    /\ Resized1.width = w1 /\ Resized1.height = h1
    /\ Resized2.height = h1

(***************************************************************************)
(* C10: resizing in a merge never shrinks an image: for positive input     *)
(* sizes and either orientation each resized image's width and height are  *)
(* at least the original's, no resized side is 0, the merge is not refused,*)
(* and the canvas is at least max(width1, width2) wide and                 *)
(* max(height1, height2) high.                                             *)
(***************************************************************************)
C10_NeverShrinks ==
    (PositiveInputs /\ orientation \in MergeOrientation) =>
        /\ pc = "done" => err = "none"
        /\ Merged =>
              /\ Resized1.width >= w1 /\ Resized1.height >= h1
              /\ Resized2.width >= w2 /\ Resized2.height >= h2
              /\ Canvas.width >= Max(w1, w2) /\ Max(w1, w2) > 0
              /\ Canvas.height >= Max(h1, h2) /\ Max(h1, h2) > 0

\* A returned merge of a 1-pixel-wide image with a wider, flatter one.
C10_Witness ==
    /\ Returned /\ PositiveInputs /\ orientation = "VERTICAL"
    /\ w1 = 1 /\ w2 > 1 /\ h1 > h2
    /\ Resized1.height = h1 * w2
    /\ Canvas.height > Max(h1, h2)

====
